---- MODULE Spec2Model ----
(***************************************************************************)
(* Model of revm's bundle account (crates/revm/src/db/states/               *)
(* bundle_account.rs): BundleAccount::update_and_create_revert, ::revert    *)
(* and ::extend, as pure functions over small value domains, applied by     *)
(* the actions of two specifications:                                       *)
(*   Spec       one operation applied to any bundle account and any input,  *)
(*              followed by the revert the fold returned;                   *)
(*   SpecChain  sequences of folds followed by the reverts they produced,   *)
(*              applied in reverse order.                                   *)
(***************************************************************************)
EXTENDS Integers, Sequences, FiniteSets, TLC

\* ------------------------------------------------------------------ bounds
\* Storage keys are 1..MaxKey.
MaxKey == 1
\* Longest sequence of folds of SpecChain.
MaxFolds == 2

Keys == 1..MaxKey
\* U256 slot values: zero and one non-zero value.
Values == {0, 5}
\* Account balances: zero (the default account), and two non-zero ones.
Balances == {0, 100, 150}

\* ------------------------------------------------------------ value types
\* Option<T>: None is the empty sequence, Some(x) the one-element sequence.
None == <<>>
Some(x) == <<x>>

\* AccountInfo, reduced to its balance; AccountInfo::default() has balance 0.
AccountInfo == [balance : Balances]
DefaultInfo == [balance |-> 0]
OptionInfo == {None} \cup {Some(i) : i \in AccountInfo}

unwrap_or_default(o) == IF o = None THEN DefaultInfo ELSE o[1]

AccountStatus ==
    {"LoadedNotExisting", "Loaded", "LoadedEmptyEIP161", "InMemoryChange",
     "Changed", "Destroyed", "DestroyedChanged", "DestroyedAgain"}

\* StorageSlot { original_value, present_value }
StorageSlot == [original_value : Values, present_value : Values]
\* StorageSlot::new_changed(original_value, present_value)
new_changed(o, p) == [original_value |-> o, present_value |-> p]

\* HashMap<U256, V>: a function whose domain is the set of keys present.
EmptyMap == [k \in {} |-> 0]
MapsOver(ks, V) == UNION {[d -> V] : d \in SUBSET ks}
StorageWithOriginalValues == MapsOver(Keys, StorageSlot)

\* RevertToSlot::{Some(value), Destroyed}
SlotSome(v) == [kind |-> "Some", value |-> v]
SlotDestroyed == [kind |-> "Destroyed", value |-> 0]
RevertToSlot == {SlotSome(v) : v \in Values} \cup {SlotDestroyed}

\* AccountInfoRevert::{DoNothing, DeleteIt, RevertTo(info)}
DoNothing == [kind |-> "DoNothing", info |-> DefaultInfo]
DeleteIt == [kind |-> "DeleteIt", info |-> DefaultInfo]
RevertTo(i) == [kind |-> "RevertTo", info |-> i]
AccountInfoRevert == {DoNothing, DeleteIt} \cup {RevertTo(i) : i \in AccountInfo}

\* AccountRevert { account, storage, previous_status, wipe_storage }
AccountRevert ==
    [account : AccountInfoRevert, storage : MapsOver(Keys, RevertToSlot),
     previous_status : AccountStatus, wipe_storage : BOOLEAN]

\* BundleAccount { info, original_info, storage, status }
BundleAccount ==
    [info : OptionInfo, original_info : OptionInfo,
     storage : StorageWithOriginalValues, status : AccountStatus]

\* The bundle accounts the specifications start from and extend with.
BundleAccounts(infos, originals, storages) ==
    [info : infos, original_info : originals,
     storage : storages, status : AccountStatus]
\* The original infos of the bundle accounts constructed: none, and one.
OriginalInfos == {None, Some([balance |-> 100])}

\* TransitionAccount { info, status, previous_info, previous_status, storage }
TransitionAccount ==
    [info : OptionInfo, status : AccountStatus, previous_info : OptionInfo,
     previous_status : AccountStatus, storage : StorageWithOriginalValues]

\* Mutant of extend_storage: a slot of the update replaces the slot held,
\* original value included.
extend_storage_replacing(this_storage, storage_update) ==
    [k \in DOMAIN this_storage \cup DOMAIN storage_update |->
        IF k \in DOMAIN storage_update
        THEN storage_update[k]
        ELSE this_storage[k]]

\* ---------------------------------------------------------------- helpers
\* this_storage.entry(key).or_insert(value).present_value = value.present_value
\* for every (key, value) of storage_update.
extend_storage(this_storage, storage_update) ==
    [k \in DOMAIN this_storage \cup DOMAIN storage_update |->
        IF k \in DOMAIN storage_update
        THEN IF k \in DOMAIN this_storage
             THEN [this_storage[k] EXCEPT
                       !.present_value = storage_update[k].present_value]
             ELSE storage_update[k]
        ELSE this_storage[k]]

\* Mutant of previous_storage_from_update: every slot of the update is
\* recorded, changed or not.
previous_storage_unfiltered(updated_storage) ==
    [k \in DOMAIN updated_storage |->
        SlotSome(updated_storage[k].original_value)]

\* The slots of the update whose value changed, each as Some(original_value).
previous_storage_from_update(updated_storage) ==
    [k \in {x \in DOMAIN updated_storage :
                updated_storage[x].original_value
                    # updated_storage[x].present_value} |->
        SlotSome(updated_storage[k].original_value)]

\* Mutant of info_revert_to_self: the info is recorded whether it changed or
\* not.
info_revert_always(self_info, updated_info) ==
    RevertTo(unwrap_or_default(self_info))

\* if self.info != updated_info { RevertTo(self.info.unwrap_or_default()) }
\* else { DoNothing }
info_revert_to_self(self_info, updated_info) ==
    IF self_info # updated_info
    THEN RevertTo(unwrap_or_default(self_info))
    ELSE DoNothing

\* Mutant of info_revert_to_default: the revert names the info the bundle
\* held.
info_revert_to_prior(self_info, updated_info) ==
    IF self_info # updated_info
    THEN RevertTo(unwrap_or_default(self_info))
    ELSE DoNothing

\* if self.info != updated_info { RevertTo(AccountInfo::default()) }
\* else { DoNothing }
info_revert_to_default(self_info, updated_info) ==
    IF self_info # updated_info THEN RevertTo(DefaultInfo) ELSE DoNothing

\* AccountRevert::new_selfdestructed(status, account, storage): the revert of
\* a selfdestruct, holding the info and every present value that was destroyed.
new_selfdestructed(status, account, storage) ==
    [account |-> RevertTo(account),
     storage |-> [k \in DOMAIN storage |-> SlotSome(storage[k].present_value)],
     previous_status |-> status,
     wipe_storage |-> TRUE]

\* AccountRevert::new_selfdestructed_again(status, account, previous_storage,
\* updated_storage): as new_selfdestructed, and every key of the new storage
\* that the destroyed storage did not hold is marked Destroyed.
new_selfdestructed_again(status, account, previous_storage, updated_storage) ==
    [account |-> RevertTo(account),
     storage |->
        [k \in DOMAIN previous_storage \cup DOMAIN updated_storage |->
            IF k \in DOMAIN previous_storage
            THEN SlotSome(previous_storage[k].present_value)
            ELSE SlotDestroyed],
     previous_status |-> status,
     wipe_storage |-> FALSE]

\* AccountRevert::new_selfdestructed_from_bundle(bundle_account,
\* updated_storage): Some(revert) when the bundle still holds the state from
\* before the destruction, None otherwise.
new_selfdestructed_from_bundle(bundle_account, updated_storage) ==
    IF bundle_account.status \in
           {"InMemoryChange", "Changed", "LoadedEmptyEIP161", "Loaded"}
    THEN Some([new_selfdestructed_again(
                   bundle_account.status,
                   unwrap_or_default(bundle_account.info),
                   bundle_account.storage,
                   updated_storage) EXCEPT !.wipe_storage = TRUE])
    ELSE None

\* -------------------------------------------- update_and_create_revert
\* The result of a call: panic (an unreachable!() arm was taken), the value
\* returned, and the bundle account after the call.
Returned(self, ret) == [panic |-> FALSE, ret |-> ret, self |-> self]
Panicked(self) == [panic |-> TRUE, ret |-> None, self |-> self]

\* Mutant of update_to_Changed: LoadedEmptyEIP161 is folded as Loaded is, with
\* the storage merged and recorded.
update_to_Changed_merging(self, transition) ==
    IF self.status \in {"Changed", "Loaded", "LoadedEmptyEIP161"}
    THEN Returned(
             [self EXCEPT
                 !.status = "Changed",
                 !.info = transition.info,
                 !.storage = extend_storage(self.storage, transition.storage)],
             Some([account |-> info_revert_to_self(self.info, transition.info),
                   storage |-> previous_storage_from_update(transition.storage),
                   previous_status |-> self.status,
                   wipe_storage |-> FALSE]))
    ELSE Panicked(self)

\* match updated_status { AccountStatus::Changed => match self.status ... }
update_to_Changed(self, transition) ==
    CASE self.status = "Changed" ->
            Returned(
                [self EXCEPT
                    !.storage = extend_storage(self.storage, transition.storage),
                    !.info = transition.info],
                Some([account |-> info_revert_to_self(self.info, transition.info),
                      storage |-> previous_storage_from_update(transition.storage),
                      previous_status |-> "Changed",
                      wipe_storage |-> FALSE]))
      [] self.status = "Loaded" ->
            Returned(
                [self EXCEPT
                    !.status = "Changed",
                    !.info = transition.info,
                    !.storage = extend_storage(self.storage, transition.storage)],
                Some([account |-> info_revert_to_self(self.info, transition.info),
                      storage |-> previous_storage_from_update(transition.storage),
                      previous_status |-> "Loaded",
                      wipe_storage |-> FALSE]))
      [] self.status = "LoadedEmptyEIP161" ->
            Returned(
                [self EXCEPT !.status = "Changed", !.info = transition.info],
                Some([account |-> info_revert_to_self(self.info, transition.info),
                      storage |-> EmptyMap,
                      previous_status |-> "Loaded",
                      wipe_storage |-> FALSE]))
      [] OTHER -> Panicked(self)

\* Mutant of update_to_InMemoryChange: an account created again is folded
\* into a Destroyed bundle as into one that never existed.
update_to_InMemoryChange_recreating(self, transition) ==
    CASE self.status \in {"LoadedEmptyEIP161", "Loaded"} ->
            Returned(
                [self EXCEPT
                    !.status = "InMemoryChange",
                    !.info = transition.info,
                    !.storage = extend_storage(self.storage, transition.storage)],
                Some([account |-> info_revert_to_default(self.info, transition.info),
                      storage |-> previous_storage_from_update(transition.storage),
                      previous_status |-> self.status,
                      wipe_storage |-> FALSE]))
      [] self.status \in {"LoadedNotExisting", "Destroyed"} ->
            Returned(
                [self EXCEPT
                    !.status = "InMemoryChange",
                    !.info = transition.info,
                    !.storage = transition.storage],
                Some([account |-> DeleteIt,
                      storage |-> previous_storage_from_update(transition.storage),
                      previous_status |-> self.status,
                      wipe_storage |-> FALSE]))
      [] self.status = "InMemoryChange" ->
            Returned(
                [self EXCEPT
                    !.status = "InMemoryChange",
                    !.info = transition.info,
                    !.storage = extend_storage(self.storage, transition.storage)],
                Some([account |-> info_revert_to_self(self.info, transition.info),
                      storage |-> previous_storage_from_update(transition.storage),
                      previous_status |-> "InMemoryChange",
                      wipe_storage |-> FALSE]))
      [] OTHER -> Panicked(self)

\* Mutant of update_to_InMemoryChange: from LoadedNotExisting the storage is
\* merged, as from the other statuses, and not replaced.
update_to_InMemoryChange_merging(self, transition) ==
    IF self.status \in
           {"LoadedEmptyEIP161", "Loaded", "LoadedNotExisting", "InMemoryChange"}
    THEN Returned(
             [self EXCEPT
                 !.status = "InMemoryChange",
                 !.info = transition.info,
                 !.storage = extend_storage(self.storage, transition.storage)],
             Some([account |->
                       CASE self.status = "LoadedNotExisting" -> DeleteIt
                         [] self.status = "InMemoryChange" ->
                               info_revert_to_self(self.info, transition.info)
                         [] OTHER ->
                               info_revert_to_default(self.info, transition.info),
                   storage |-> previous_storage_from_update(transition.storage),
                   previous_status |-> self.status,
                   wipe_storage |-> FALSE]))
    ELSE Panicked(self)

\* AccountStatus::InMemoryChange => match self.status ...
update_to_InMemoryChange(self, transition) ==
    CASE self.status \in {"LoadedEmptyEIP161", "Loaded"} ->
            Returned(
                [self EXCEPT
                    !.status = "InMemoryChange",
                    !.info = transition.info,
                    !.storage = extend_storage(self.storage, transition.storage)],
                Some([account |-> info_revert_to_default(self.info, transition.info),
                      storage |-> previous_storage_from_update(transition.storage),
                      previous_status |-> self.status,
                      wipe_storage |-> FALSE]))
      [] self.status = "LoadedNotExisting" ->
            Returned(
                [self EXCEPT
                    !.status = "InMemoryChange",
                    !.info = transition.info,
                    !.storage = transition.storage],
                Some([account |-> DeleteIt,
                      storage |-> previous_storage_from_update(transition.storage),
                      previous_status |-> "LoadedNotExisting",
                      wipe_storage |-> FALSE]))
      [] self.status = "InMemoryChange" ->
            Returned(
                [self EXCEPT
                    !.status = "InMemoryChange",
                    !.info = transition.info,
                    !.storage = extend_storage(self.storage, transition.storage)],
                Some([account |-> info_revert_to_self(self.info, transition.info),
                      storage |-> previous_storage_from_update(transition.storage),
                      previous_status |-> "InMemoryChange",
                      wipe_storage |-> FALSE]))
      [] OTHER -> Panicked(self)

\* Mutant of update_to_Destroyed: a bundle already destroyed is left as it
\* is (None) instead of panicking.
update_to_Destroyed_lenient(self, transition) ==
    LET this_info == unwrap_or_default(self.info)
        this_storage == self.storage
        taken == [self EXCEPT !.info = None, !.storage = EmptyMap]
    IN  IF self.status \in
               {"InMemoryChange", "Changed", "Loaded", "LoadedEmptyEIP161"}
        THEN Returned(
                 [taken EXCEPT !.status = "Destroyed"],
                 Some(new_selfdestructed(self.status, this_info, this_storage)))
        ELSE Returned(taken, None)

\* AccountStatus::Destroyed: info is taken and storage drained before the
\* match on self.status, so the LoadedNotExisting arm returns None with the
\* bundle already emptied.
update_to_Destroyed(self, transition) ==
    LET this_info == unwrap_or_default(self.info)
        this_storage == self.storage
        taken == [self EXCEPT !.info = None, !.storage = EmptyMap]
    IN  CASE self.status \in
                 {"InMemoryChange", "Changed", "Loaded", "LoadedEmptyEIP161"} ->
                Returned(
                    [taken EXCEPT !.status = "Destroyed"],
                    Some(new_selfdestructed(self.status, this_info, this_storage)))
          [] self.status = "LoadedNotExisting" -> Returned(taken, None)
          [] OTHER -> Panicked(self)

\* Mutant of update_to_DestroyedChanged: the account made from a destroyed
\* state is reverted like a change of info (RevertTo / DoNothing), not deleted.
update_to_DestroyedChanged_no_delete(self, transition) ==
    LET pre_destroy == new_selfdestructed_from_bundle(self, transition.storage)
        updated == [self EXCEPT
                       !.status = "DestroyedChanged",
                       !.info = transition.info,
                       !.storage = transition.storage]
    IN  IF pre_destroy # None
        THEN Returned(updated, pre_destroy)
        ELSE IF self.status = "DestroyedAgain"
        THEN Returned(updated,
                 Some(new_selfdestructed_again(
                          "DestroyedAgain", DefaultInfo, EmptyMap,
                          transition.storage)))
        ELSE Returned(updated,
                 Some([account |->
                           info_revert_to_default(self.info, transition.info),
                       storage |->
                           previous_storage_from_update(transition.storage),
                       previous_status |-> self.status,
                       wipe_storage |-> FALSE]))

\* AccountStatus::DestroyedChanged
update_to_DestroyedChanged(self, transition) ==
    LET pre_destroy == new_selfdestructed_from_bundle(self, transition.storage)
        updated == [self EXCEPT
                       !.status = "DestroyedChanged",
                       !.info = transition.info,
                       !.storage = transition.storage]
    IN  IF pre_destroy # None
        THEN Returned(updated, pre_destroy)
        ELSE CASE self.status = "Destroyed" ->
                    Returned(updated,
                        Some([account |-> DeleteIt,
                              storage |->
                                  previous_storage_from_update(transition.storage),
                              previous_status |-> "Destroyed",
                              wipe_storage |-> FALSE]))
               [] self.status = "DestroyedChanged" ->
                    Returned(updated,
                        Some([account |->
                                  info_revert_to_default(self.info, transition.info),
                              storage |->
                                  previous_storage_from_update(transition.storage),
                              previous_status |-> "DestroyedChanged",
                              wipe_storage |-> FALSE]))
               [] self.status = "LoadedNotExisting" ->
                    Returned(updated,
                        Some([account |-> DeleteIt,
                              storage |->
                                  previous_storage_from_update(transition.storage),
                              previous_status |-> "LoadedNotExisting",
                              wipe_storage |-> FALSE]))
               [] self.status = "DestroyedAgain" ->
                    Returned(updated,
                        Some(new_selfdestructed_again(
                                 "DestroyedAgain", DefaultInfo, EmptyMap,
                                 transition.storage)))
               [] OTHER -> Panicked(self)

\* Mutant of update_to_DestroyedAgain: the revert from DestroyedChanged
\* records no storage.
update_to_DestroyedAgain_empty_revert(self, transition) ==
    LET pre_destroy == new_selfdestructed_from_bundle(self, EmptyMap)
        cleared == [self EXCEPT
                       !.status = "DestroyedAgain",
                       !.info = None,
                       !.storage = EmptyMap]
    IN  IF pre_destroy # None
        THEN Returned(cleared, pre_destroy)
        ELSE CASE self.status \in
                      {"Destroyed", "DestroyedAgain", "LoadedNotExisting"} ->
                    Returned(cleared, None)
               [] self.status = "DestroyedChanged" ->
                    Returned(cleared,
                        Some([account |-> RevertTo(unwrap_or_default(self.info)),
                              storage |-> EmptyMap,
                              previous_status |-> "DestroyedChanged",
                              wipe_storage |-> FALSE]))
               [] OTHER -> Panicked(self)

\* Mutant of update_to_DestroyedAgain: a fold that returns None leaves the
\* bundle as it was.
update_to_DestroyedAgain_keeping(self, transition) ==
    LET pre_destroy == new_selfdestructed_from_bundle(self, EmptyMap)
        cleared == [self EXCEPT
                       !.status = "DestroyedAgain",
                       !.info = None,
                       !.storage = EmptyMap]
    IN  IF pre_destroy # None
        THEN Returned(cleared, pre_destroy)
        ELSE CASE self.status \in
                      {"Destroyed", "DestroyedAgain", "LoadedNotExisting"} ->
                    Returned(self, None)
               [] self.status = "DestroyedChanged" ->
                    Returned(cleared,
                        Some([account |-> RevertTo(unwrap_or_default(self.info)),
                              storage |->
                                  previous_storage_from_update(transition.storage),
                              previous_status |-> "DestroyedChanged",
                              wipe_storage |-> FALSE]))
               [] OTHER -> Panicked(self)

\* AccountStatus::DestroyedAgain
update_to_DestroyedAgain(self, transition) ==
    LET pre_destroy == new_selfdestructed_from_bundle(self, EmptyMap)
        cleared == [self EXCEPT
                       !.status = "DestroyedAgain",
                       !.info = None,
                       !.storage = EmptyMap]
    IN  IF pre_destroy # None
        THEN Returned(cleared, pre_destroy)
        ELSE CASE self.status \in
                      {"Destroyed", "DestroyedAgain", "LoadedNotExisting"} ->
                    Returned(cleared, None)
               [] self.status = "DestroyedChanged" ->
                    Returned(cleared,
                        Some([account |-> RevertTo(unwrap_or_default(self.info)),
                              storage |->
                                  previous_storage_from_update(transition.storage),
                              previous_status |-> "DestroyedChanged",
                              wipe_storage |-> FALSE]))
               [] OTHER -> Panicked(self)

\* Mutant of update_and_create_revert: a fold to a Loaded status refreshes
\* the bundle's info from the transition.
update_and_create_revert_refreshing(self, transition) ==
    CASE transition.status = "Changed" -> update_to_Changed(self, transition)
      [] transition.status = "InMemoryChange" ->
            update_to_InMemoryChange(self, transition)
      [] transition.status \in
             {"Loaded", "LoadedNotExisting", "LoadedEmptyEIP161"} ->
            Returned([self EXCEPT !.info = transition.info], None)
      [] transition.status = "Destroyed" -> update_to_Destroyed(self, transition)
      [] transition.status = "DestroyedChanged" ->
            update_to_DestroyedChanged(self, transition)
      [] transition.status = "DestroyedAgain" ->
            update_to_DestroyedAgain(self, transition)

\* BundleAccount::update_and_create_revert(&mut self, transition)
update_and_create_revert(self, transition) ==
    CASE transition.status = "Changed" -> update_to_Changed(self, transition)
      [] transition.status = "InMemoryChange" ->
            update_to_InMemoryChange(self, transition)
      [] transition.status \in
             {"Loaded", "LoadedNotExisting", "LoadedEmptyEIP161"} ->
            Returned(self, None)
      [] transition.status = "Destroyed" -> update_to_Destroyed(self, transition)
      [] transition.status = "DestroyedChanged" ->
            update_to_DestroyedChanged(self, transition)
      [] transition.status = "DestroyedAgain" ->
            update_to_DestroyedAgain(self, transition)

\* ----------------------------------------------------------------- revert
\* Mutant of revert_storage: Some(value) only fills in an absent slot and
\* leaves the present value of a slot the bundle holds.
revert_storage_or_insert_only(storage, revert_slots) ==
    [k \in (DOMAIN storage \cup DOMAIN revert_slots)
            \ {x \in DOMAIN revert_slots : revert_slots[x].kind = "Destroyed"} |->
        IF k \in DOMAIN storage
        THEN storage[k]
        ELSE new_changed(revert_slots[k].value, revert_slots[k].value)]

\* for (key, slot) in revert.storage: Some(value) sets the present value
\* (inserting new_changed(value, 0) first when the key is absent), Destroyed
\* removes the key.
revert_storage(storage, revert_slots) ==
    [k \in (DOMAIN storage \cup DOMAIN revert_slots)
            \ {x \in DOMAIN revert_slots : revert_slots[x].kind = "Destroyed"} |->
        IF k \in DOMAIN revert_slots
        THEN IF k \in DOMAIN storage
             THEN [storage[k] EXCEPT !.present_value = revert_slots[k].value]
             ELSE [new_changed(revert_slots[k].value, 0) EXCEPT
                       !.present_value = revert_slots[k].value]
        ELSE storage[k]]

\* Mutant of revert: DeleteIt drops the info and goes on to the storage
\* entries instead of emptying the storage and returning.
revert_delete_keeps_storage(self, rev) ==
    LET s1 == [self EXCEPT !.status = rev.previous_status]
    IN  CASE rev.account.kind = "DeleteIt" ->
                [ret |-> TRUE,
                 self |-> [s1 EXCEPT
                              !.info = None,
                              !.storage = revert_storage(s1.storage, rev.storage)]]
          [] rev.account.kind = "DoNothing" ->
                [ret |-> FALSE,
                 self |-> [s1 EXCEPT
                              !.storage = revert_storage(s1.storage, rev.storage)]]
          [] rev.account.kind = "RevertTo" ->
                [ret |-> FALSE,
                 self |-> [s1 EXCEPT
                              !.info = Some(rev.account.info),
                              !.storage = revert_storage(s1.storage, rev.storage)]]

\* BundleAccount::revert(&mut self, revert) -> bool
revert(self, rev) ==
    LET s1 == [self EXCEPT !.status = rev.previous_status]
    IN  CASE rev.account.kind = "DeleteIt" ->
                [ret |-> TRUE,
                 self |-> [s1 EXCEPT !.info = None, !.storage = EmptyMap]]
          [] rev.account.kind = "DoNothing" ->
                [ret |-> FALSE,
                 self |-> [s1 EXCEPT
                              !.storage = revert_storage(s1.storage, rev.storage)]]
          [] rev.account.kind = "RevertTo" ->
                [ret |-> FALSE,
                 self |-> [s1 EXCEPT
                              !.info = Some(rev.account.info),
                              !.storage = revert_storage(s1.storage, rev.storage)]]

\* ----------------------------------------------------------------- extend
\* Mutant of extend: a slot of other replaces the slot of self, original
\* value included.
extend_overwriting(self, other) ==
    [self EXCEPT
        !.status = other.status,
        !.info = other.info,
        !.storage =
            [k \in DOMAIN self.storage \cup DOMAIN other.storage |->
                IF k \in DOMAIN other.storage
                THEN other.storage[k]
                ELSE self.storage[k]]]

\* BundleAccount::extend(&mut self, other)
extend(self, other) ==
    [self EXCEPT
        !.status = other.status,
        !.info = other.info,
        !.storage = extend_storage(self.storage, other.storage)]

\* AccountStatus::was_destroyed(): the account was destroyed by SELFDESTRUCT.
status_was_destroyed(status) ==
    status \in {"Destroyed", "DestroyedChanged", "DestroyedAgain"}

\* BundleAccount::was_destroyed(&self) -> bool
was_destroyed(self) == status_was_destroyed(self.status)

\* ----------------------------------------------------------- storage_slot
\* AccountStatus::storage_known(): the storage is fully known, the account
\* being newly created or destroyed, so that a slot not cached is zero.
storage_known(status) ==
    status \in {"LoadedNotExisting", "InMemoryChange", "Destroyed",
                "DestroyedChanged", "DestroyedAgain"}

\* Mutant of storage_slot: a slot not cached is never resolved.
storage_slot_cached_only(self, slot) ==
    IF slot \in DOMAIN self.storage
    THEN Some(self.storage[slot].present_value)
    ELSE None

\* BundleAccount::storage_slot(&self, slot) -> Option<U256>
storage_slot(self, slot) ==
    IF slot \in DOMAIN self.storage
    THEN Some(self.storage[slot].present_value)
    ELSE IF storage_known(self.status) THEN Some(0) ELSE None

\* ------------------------------------------------------------ CacheAccount
\* The addresses of the accounts cached.
Addresses == {"a1", "a2"}

\* The infos of cached and executed accounts: the empty account, and one
\* that is not empty.
CacheInfos == {[balance |-> 0], [balance |-> 100]}

\* AccountInfo::is_empty()
is_empty(info) == info = DefaultInfo

\* PlainStorage: key -> value
PlainStorage == MapsOver({1}, Values)

\* PlainAccount { info, storage }
PlainAccount == [info : CacheInfos, storage : PlainStorage]

\* CacheAccount { account: Option<PlainAccount>, status }
CacheAccount ==
    [account : {None} \cup {Some(a) : a \in PlainAccount}, status : AccountStatus]

\* CacheAccount::new_loaded_not_existing()
new_loaded_not_existing == [account |-> None, status |-> "LoadedNotExisting"]

\* CacheAccount::new_loaded(info, storage)
new_loaded(info, storage) ==
    [account |-> Some([info |-> info, storage |-> storage]), status |-> "Loaded"]

\* CacheAccount::new_loaded_empty_eip161(storage)
new_loaded_empty_eip161(storage) ==
    [account |-> Some([info |-> DefaultInfo, storage |-> storage]),
     status |-> "LoadedEmptyEIP161"]

\* CacheAccount::new_newly_created(info, storage)
new_newly_created(info, storage) ==
    [account |-> Some([info |-> info, storage |-> storage]),
     status |-> "InMemoryChange"]

\* CacheAccount::new_changed(info, storage)
cache_new_changed(info, storage) ==
    [account |-> Some([info |-> info, storage |-> storage]), status |-> "Changed"]

\* self.account.take().map(|a| a.info)
account_info(this) ==
    IF this.account = None THEN None ELSE Some(this.account[1].info)

\* The storage held by a cache account, none when the account is None.
account_storage(this) ==
    IF this.account = None THEN EmptyMap ELSE this.account[1].storage

\* storage.iter().map(|(k, v)| (*k, v.present_value)).collect()
present_values(storage) == [k \in DOMAIN storage |-> storage[k].present_value]

\* CacheAccount::selfdestruct(): the "mark destroyed" transform; the account
\* is taken, and a transition is returned unless the account never existed.
selfdestruct(this) ==
    LET status ==
            CASE this.status = "LoadedNotExisting" -> "LoadedNotExisting"
              [] this.status \in {"Destroyed", "DestroyedChanged",
                                  "DestroyedAgain"} -> "DestroyedAgain"
              [] OTHER -> "Destroyed"
    IN  [self |-> [account |-> None, status |-> status],
         ret |-> IF this.status = "LoadedNotExisting"
                 THEN None
                 ELSE Some([info |-> None, status |-> status,
                            previous_info |-> account_info(this),
                            previous_status |-> this.status,
                            storage |-> EmptyMap])]

\* CacheAccount::newly_created(new_info, new_storage): the account becomes an
\* in-memory change (a destroyed one becomes DestroyedChanged) and the
\* transition records the previous info and status.
newly_created(this, new_info, new_storage) ==
    LET status ==
            IF this.status \in {"Destroyed", "DestroyedChanged", "DestroyedAgain"}
            THEN "DestroyedChanged"
            ELSE "InMemoryChange"
    IN  [self |-> [account |-> Some([info |-> new_info,
                                     storage |-> present_values(new_storage)]),
                   status |-> status],
         ret |-> Some([info |-> Some(new_info), status |-> status,
                       previous_info |-> account_info(this),
                       previous_status |-> this.status,
                       storage |-> new_storage])]

\* CacheAccount::touch_empty(): the account is marked for removal; a
\* transition is returned unless the account was already logically absent.
touch_empty(this) ==
    LET status ==
            CASE this.status = "LoadedNotExisting" -> "LoadedNotExisting"
              [] this.status \in {"DestroyedChanged", "DestroyedAgain"} ->
                    "DestroyedAgain"
              [] OTHER -> "Destroyed"
        storage == account_storage(this)
    IN  [self |-> [account |-> None, status |-> status],
         ret |-> IF this.status \in {"LoadedNotExisting", "Destroyed",
                                     "DestroyedAgain"}
                 THEN None
                 ELSE Some([info |-> None, status |-> status,
                            previous_info |-> account_info(this),
                            previous_status |-> this.status,
                            storage |-> [k \in DOMAIN storage |->
                                            new_changed(storage[k], 0)]])]

\* CacheAccount::change(new, storage): the "changed" transform; the present
\* values are written over the storage held, and the transition records the
\* previous info and status.
change(this, new, storage) ==
    LET status ==
            CASE this.status \in {"Loaded", "Changed"} -> "Changed"
              [] this.status \in {"Destroyed", "DestroyedChanged",
                                  "DestroyedAgain"} -> "DestroyedChanged"
              [] OTHER -> "InMemoryChange"
        held == account_storage(this)
    IN  [self |-> [account |->
                       Some([info |-> new,
                             storage |->
                                 [k \in DOMAIN held \cup DOMAIN storage |->
                                     IF k \in DOMAIN storage
                                     THEN storage[k].present_value
                                     ELSE held[k]]]),
                   status |-> status],
         ret |-> Some([info |-> Some(new), status |-> status,
                       previous_info |-> account_info(this),
                       previous_status |-> this.status,
                       storage |-> storage])]

\* -------------------------------------------------------------- CacheState
\* The account of one address in the output of an execution: its info, its
\* storage with original values, and the flags is_touched(),
\* is_selfdestructed() and is_created().
Account ==
    [info : CacheInfos,
     storage : {EmptyMap, [k \in {1} |-> new_changed(0, 5)]},
     is_touched : BOOLEAN, is_selfdestructed : BOOLEAN, is_created : BOOLEAN]

\* EVMState: HashMap<B160, Account>
EVMState == MapsOver(Addresses, Account)

\* CacheState { accounts, contracts, has_state_clear }; no operation here
\* reads or writes contracts, which is left out.
CacheState_new == [accounts |-> EmptyMap, has_state_clear |-> TRUE]

\* CacheState::new_legacy()
new_legacy == [accounts |-> EmptyMap, has_state_clear |-> FALSE]

\* HashMap::insert(key, value), also entry.insert and *entry.get_mut() = value
Insert(map, key, value) ==
    [k \in DOMAIN map \cup {key} |-> IF k = key THEN value ELSE map[k]]

\* CacheState::insert_not_existing(address)
insert_not_existing(self, address) ==
    [self EXCEPT !.accounts = Insert(@, address, new_loaded_not_existing)]

\* CacheState::insert_account_with_storage(address, info, storage)
insert_account_with_storage(self, address, info, storage) ==
    [self EXCEPT !.accounts =
        Insert(@, address,
               IF ~is_empty(info)
               THEN new_loaded(info, storage)
               ELSE new_loaded_empty_eip161(storage))]

\* CacheState::insert_account(address, info)
insert_account(self, address, info) ==
    [self EXCEPT !.accounts =
        Insert(@, address,
               IF ~is_empty(info)
               THEN new_loaded(info, EmptyMap)
               ELSE new_loaded_empty_eip161(EmptyMap))]

\* The state of the loop of apply_evm_state: the accounts map, the
\* transitions pushed so far, and whether unreachable!() was hit.
LoopState(accounts) == [accounts |-> accounts, transitions |-> <<>>, panic |-> FALSE]

\* entry.insert(account)
Put(state, address, account) ==
    [state EXCEPT !.accounts = Insert(@, address, account)]

\* transitions.push((address, transition))
Push(state, address, transition) ==
    [state EXCEPT !.transitions = Append(@, <<address, transition>>)]

\* The entry is written by a CacheAccount method, whose transition is pushed
\* when it returns one.
Applied(state, address, r) ==
    IF r.ret = None
    THEN Put(state, address, r.self)
    ELSE Push(Put(state, address, r.self), address, r.ret[1])

\* Mutant of apply_selfdestructed: a cached account that selfdestructed is
\* removed from the cache.
apply_selfdestructed_removing(state, address) ==
    IF address \in DOMAIN state.accounts
    THEN LET r == selfdestruct(state.accounts[address])
         IN  [Applied(state, address, r) EXCEPT !.accounts = [k \in DOMAIN @ \ {address} |-> @[k]]]
    ELSE Put(state, address, new_loaded_not_existing)

\* The branch of a selfdestructed account.
apply_selfdestructed(state, address) ==
    IF address \in DOMAIN state.accounts
    THEN Applied(state, address, selfdestruct(state.accounts[address]))
    ELSE Put(state, address, new_loaded_not_existing)

\* Mutant of apply_created: an account created that is not cached is
\* inserted and no transition is pushed for it.
apply_created_silent(state, address, account) ==
    IF address \in DOMAIN state.accounts
    THEN Applied(state, address,
                 newly_created(state.accounts[address], account.info,
                               account.storage))
    ELSE Put(state, address,
             new_newly_created(account.info, present_values(account.storage)))

\* The branch of a created account.
apply_created(state, address, account) ==
    IF address \in DOMAIN state.accounts
    THEN Applied(state, address,
                 newly_created(state.accounts[address], account.info,
                               account.storage))
    ELSE Push(Put(state, address,
                  new_newly_created(account.info,
                                    present_values(account.storage))),
              address,
              [info |-> Some(account.info),
               status |-> "InMemoryChange",
               storage |-> account.storage,
               previous_info |-> None,
               previous_status |-> "LoadedNotExisting"])

\* Mutant of apply_empty: without state clearing the empty account is removed
\* from the cache.
apply_empty_removing(state, has_state_clear, address) ==
    IF has_state_clear
    THEN IF address \in DOMAIN state.accounts
         THEN Applied(state, address, touch_empty(state.accounts[address]))
         ELSE [state EXCEPT !.panic = TRUE]
    ELSE [state EXCEPT !.accounts = [k \in DOMAIN @ \ {address} |-> @[k]]]

\* The branch of a touched account that is empty, and neither selfdestructed
\* nor created.
apply_empty(state, has_state_clear, address) ==
    IF has_state_clear
    THEN IF address \in DOMAIN state.accounts
         THEN Applied(state, address, touch_empty(state.accounts[address]))
         ELSE [state EXCEPT !.panic = TRUE]
    ELSE state

\* The branch of every other touched account.
apply_changed(state, address, account) ==
    IF address \in DOMAIN state.accounts
    THEN Applied(state, address,
                 change(state.accounts[address], account.info, account.storage))
    ELSE Put(state, address,
             cache_new_changed(account.info, present_values(account.storage)))

\* Mutant of apply_account: the created flag is read before the
\* selfdestructed flag.
apply_account_created_first(state, has_state_clear, address, account) ==
    IF ~account.is_touched THEN state
    ELSE IF account.is_created THEN apply_created(state, address, account)
    ELSE IF account.is_selfdestructed THEN apply_selfdestructed(state, address)
    ELSE IF is_empty(account.info)
         THEN apply_empty(state, has_state_clear, address)
    ELSE apply_changed(state, address, account)

\* Mutant of apply_account: the touched flag is not read.
apply_account_untouched_too(state, has_state_clear, address, account) ==
    IF account.is_selfdestructed THEN apply_selfdestructed(state, address)
    ELSE IF account.is_created THEN apply_created(state, address, account)
    ELSE IF is_empty(account.info)
         THEN apply_empty(state, has_state_clear, address)
    ELSE apply_changed(state, address, account)

\* The body of the loop of apply_evm_state, for one (address, account).
apply_account(state, has_state_clear, address, account) ==
    IF ~account.is_touched THEN state
    ELSE IF account.is_selfdestructed THEN apply_selfdestructed(state, address)
    ELSE IF account.is_created THEN apply_created(state, address, account)
    ELSE IF is_empty(account.info)
         THEN apply_empty(state, has_state_clear, address)
    ELSE apply_changed(state, address, account)

\* Mutant of apply_in_order: the loop ends after the first account that
\* pushed a transition.
apply_in_order_until_pushed(state, has_state_clear, evm_state, order) ==
    IF order = <<>> \/ state.panic
    THEN state
    ELSE LET first == apply_account(state, has_state_clear, order[1],
                                    evm_state[order[1]])
         IN  IF first.transitions # <<>> \/ Len(order) = 1 \/ first.panic
             THEN first
             ELSE apply_account(first, has_state_clear, order[2],
                                evm_state[order[2]])

\* The loop over the addresses in the order the map is iterated; it ends
\* where unreachable!() is hit.
RECURSIVE apply_in_order(_, _, _, _)
apply_in_order(state, has_state_clear, evm_state, order) ==
    IF order = <<>> \/ state.panic
    THEN state
    ELSE apply_in_order(
             apply_account(state, has_state_clear, order[1], evm_state[order[1]]),
             has_state_clear, evm_state, Tail(order))

\* The orders in which a HashMap over the addresses in s can be iterated.
Orders(s) ==
    {o \in UNION {[1..n -> s] : n \in {Cardinality(s)}} :
        \A i, j \in DOMAIN o : i # j => o[i] # o[j]}

\* CacheState::apply_evm_state(evm_state) -> Vec<(B160, TransitionAccount)>
apply_evm_state(self, evm_state, order) ==
    LET state == apply_in_order(LoopState(self.accounts), self.has_state_clear,
                                evm_state, order)
    IN  [self |-> [self EXCEPT !.accounts = state.accounts],
         ret |-> state.transitions,
         panic |-> state.panic]

\* ------------------------------------------------------------------ state
VARIABLES
    acc,        \* the bundle account
    start,      \* the bundle account as constructed
    reverts,    \* the reverts returned by the folds and not yet applied
    folded,     \* the transitions folded so far, oldest first
    op,         \* the last operation: "new", "update", "revert", "extend",
                \* "storage_slot"
    pre,        \* the bundle account, or the cache, before the last operation
    arg,        \* the argument of the last operation
    ret,        \* what the last operation returned
    panicked,   \* the last operation hit unreachable!()
    cache       \* the CacheState

vars == <<acc, start, reverts, folded, op, pre, arg, ret, panicked, cache>>

\* BundleAccount::new(original_info, present_info, storage, status)
New(b) ==
    /\ acc = b
    /\ start = b
    /\ reverts = <<>>
    /\ folded = <<>>
    /\ op = "new"
    /\ pre = b
    /\ arg = None
    /\ ret = None
    /\ panicked = FALSE
    /\ cache = CacheState_new

\* A fold of transition t into the bundle account; the revert it returns is
\* kept for a later rollback.
Update(t) ==
    LET r == update_and_create_revert(acc, t)
    IN  /\ ~panicked
        /\ op' = "update"
        /\ pre' = acc
        /\ arg' = t
        /\ panicked' = r.panic
        /\ ret' = r.ret
        /\ acc' = IF r.panic THEN acc ELSE r.self
        /\ reverts' = IF r.ret # None THEN Append(reverts, r.ret[1]) ELSE reverts
        /\ folded' = Append(folded, t)
        /\ UNCHANGED <<start, cache>>

\* BundleAccount::revert with revert rev.
ApplyRevert(rev) ==
    LET r == revert(acc, rev)
    IN  /\ op' = "revert"
        /\ pre' = acc
        /\ arg' = rev
        /\ ret' = r.ret
        /\ acc' = r.self
        /\ UNCHANGED <<start, folded, panicked, cache>>

\* The transitions folded: previous_info and previous_status are the bundle's,
\* as the caller builds them; update_and_create_revert reads neither.
TransitionsFor(b, infos, storages) ==
    {[info |-> i, status |-> s, previous_info |-> b.info,
      previous_status |-> b.status, storage |-> st] :
        i \in infos, s \in AccountStatus, st \in storages}

\* ------------------------------------------------- Spec: single operations
Init ==
    \E b \in BundleAccounts(OptionInfo, OriginalInfos, StorageWithOriginalValues) :
        New(b)

UpdateAndCreateRevert ==
    /\ op = "new"
    /\ \E t \in TransitionsFor(acc, OptionInfo, StorageWithOriginalValues) :
           Update(t)

\* The revert the last fold returned is applied (rollback, newest first).
RevertReturned ==
    /\ ~panicked
    /\ op \in {"update", "revert"}
    /\ reverts # <<>>
    /\ ApplyRevert(reverts[Len(reverts)])
    /\ reverts' = SubSeq(reverts, 1, Len(reverts) - 1)

\* BundleAccount::revert with any revert.
Revert ==
    /\ op = "new"
    /\ \E rev \in AccountRevert : ApplyRevert(rev)
    /\ UNCHANGED reverts

\* BundleAccount::extend with any other bundle account.
Extend ==
    /\ op = "new"
    /\ \E other \in BundleAccounts(OptionInfo, {None}, StorageWithOriginalValues) :
           /\ op' = "extend"
           /\ pre' = acc
           /\ arg' = other
           /\ ret' = None
           /\ acc' = extend(acc, other)
    /\ UNCHANGED <<start, reverts, folded, panicked, cache>>

\* BundleAccount::storage_slot with any key; &self, the bundle is not written.
StorageSlotRead ==
    /\ op = "new"
    /\ \E slot \in Keys :
           /\ op' = "storage_slot"
           /\ pre' = acc
           /\ arg' = slot
           /\ ret' = storage_slot(acc, slot)
           /\ acc' = acc
    /\ UNCHANGED <<start, reverts, folded, panicked, cache>>

Next ==
    \/ UpdateAndCreateRevert
    \/ RevertReturned
    \/ Revert
    \/ Extend
    \/ StorageSlotRead

Spec == Init /\ [][Next]_vars

\* ------------------------------------------- SpecChain: sequences of folds
\* Bundle accounts and transitions over storage key 1 only.
ChainStartStorages == MapsOver({1}, StorageSlot)
ChainInfos == {None, Some([balance |-> 150])}
ChainStorages == {EmptyMap, [k \in {1} |-> new_changed(0, 5)]}

InitChain ==
    \E b \in BundleAccounts(OptionInfo, {None}, ChainStartStorages) : New(b)

\* One more fold, while no revert has been applied yet.
Fold ==
    /\ op \in {"new", "update"}
    /\ Len(folded) < MaxFolds
    /\ \E t \in TransitionsFor(acc, ChainInfos, ChainStorages) : Update(t)

NextChain == Fold \/ RevertReturned

SpecChain == InitChain /\ [][NextChain]_vars

\* ------------------------------------------------- SpecCache: the CacheState
\* CacheState::new() or CacheState::new_legacy(); the bundle account plays no
\* part.
InitCache ==
    /\ cache \in {CacheState_new, new_legacy}
    /\ acc = [info |-> None, original_info |-> None, storage |-> EmptyMap,
              status |-> "LoadedNotExisting"]
    /\ start = acc
    /\ reverts = <<>>
    /\ folded = <<>>
    /\ op = "new"
    /\ pre = cache
    /\ arg = None
    /\ ret = None
    /\ panicked = FALSE

\* A call of a CacheState method that returns nothing.
Inserted(name, args, after) ==
    /\ op = "new"
    /\ op' = name
    /\ pre' = cache
    /\ arg' = args
    /\ ret' = None
    /\ cache' = after
    /\ UNCHANGED <<acc, start, reverts, folded, panicked>>

InsertNotExisting ==
    \E address \in Addresses :
        Inserted("insert_not_existing", [address |-> address],
                 insert_not_existing(cache, address))

InsertAccount ==
    \E address \in Addresses, info \in CacheInfos :
        Inserted("insert_account", [address |-> address, info |-> info],
                 insert_account(cache, address, info))

InsertAccountWithStorage ==
    \E address \in Addresses, info \in CacheInfos, storage \in PlainStorage :
        Inserted("insert_account_with_storage",
                 [address |-> address, info |-> info, storage |-> storage],
                 insert_account_with_storage(cache, address, info, storage))

\* CacheState::apply_evm_state with any output of an execution, iterated in
\* any order.
ApplyEvmState ==
    /\ op = "new"
    /\ \E evm_state \in EVMState :
        \E order \in Orders(DOMAIN evm_state) :
            LET r == apply_evm_state(cache, evm_state, order)
            IN  /\ op' = "apply_evm_state"
                /\ pre' = cache
                /\ arg' = evm_state
                /\ ret' = r.ret
                /\ panicked' = r.panic
                /\ cache' = r.self
    /\ UNCHANGED <<acc, start, reverts, folded>>

\* The call has returned and its result is with the caller: the cache is
\* ready for the next call, and the record of the last one is dropped.
CallReturned ==
    /\ op # "new"
    /\ ~panicked
    /\ op' = "new"
    /\ pre' = cache
    /\ arg' = None
    /\ ret' = None
    /\ UNCHANGED <<acc, start, reverts, folded, panicked, cache>>

NextCache ==
    \/ InsertNotExisting
    \/ InsertAccount
    \/ InsertAccountWithStorage
    \/ ApplyEvmState
    \/ CallReturned

SpecCache == InitCache /\ [][NextCache]_vars

\* ============================================================== properties
\* The present values of a storage map, one per key present.
PresentValues(storage) == [k \in DOMAIN storage |-> storage[k].present_value]

\* The last operation was a fold that returned (did not panic).
Folded == op = "update" /\ ~panicked
\* Every fold made has been rolled back, newest first.
RolledBack == op = "revert" /\ folded # <<>> /\ reverts = <<>>
\* The target statuses of the folds made so far are those of targets, in order.
PathIs(targets) ==
    /\ Len(folded) = Len(targets)
    /\ \A i \in 1..Len(targets) : folded[i].status = targets[i]

\* --------------------------------------------------------------------- C1
\* A bundle account whose info agrees with its status, as the bundle state
\* holds them: none and no storage for an account that does not exist or is
\* destroyed, the default info for an empty account, some info otherwise.
Consistent(b) ==
    CASE b.status \in {"LoadedNotExisting", "Destroyed", "DestroyedAgain"} ->
            b.info = None /\ b.storage = EmptyMap
      [] b.status = "LoadedEmptyEIP161" -> b.info = Some(DefaultInfo)
      [] OTHER -> b.info # None

\* Transition t names, as original value of every slot bundle b holds, the
\* present value b holds.
OriginalsAgree(b, t) ==
    \A k \in DOMAIN t.storage \cap DOMAIN b.storage :
        t.storage[k].original_value = b.storage[k].present_value

\* C1 (as claimed): once the reverts R1..Rn produced by a sequence of folds
\* have been applied newest first, the bundle account has the info, the
\* storage present values and the status it started with.  Stated where the
\* claim asks least: for one fold to InMemoryChange (the revert is built by
\* update_and_create_revert alone), of a transition whose original values are
\* the bundle's present values, between bundle accounts whose info agrees
\* with their status, and for the slots the bundle held at the start.
RoundTrip ==
    (/\ RolledBack
     /\ PathIs(<<"InMemoryChange">>)
     /\ Consistent(start)
     /\ Consistent(pre)
     /\ OriginalsAgree(start, folded[1])) =>
        /\ acc.info = start.info
        /\ acc.status = start.status
        /\ \A k \in DOMAIN start.storage :
            /\ k \in DOMAIN acc.storage
            /\ acc.storage[k].present_value = start.storage[k].present_value

\* --------------------------------------------------------------------- C2
\* The fold of a transition that carries the bundle's own info, storage and
\* status.
SameStateFold ==
    /\ op = "update"
    /\ arg.info = pre.info
    /\ arg.storage = pre.storage
    /\ arg.status = pre.status

\* C2 (as claimed): such a fold returns None and leaves the bundle's info,
\* storage and status unchanged.
NoOpIdempotence ==
    SameStateFold =>
        /\ ~panicked
        /\ ret = None
        /\ acc.info = pre.info
        /\ acc.storage = pre.storage
        /\ acc.status = pre.status

\* C2 (amended): such a fold panics when the status is Destroyed; otherwise it
\* keeps the status, keeps the info and storage (status DestroyedAgain: ends
\* with no info and no storage), and returns None when the status is Loaded,
\* LoadedNotExisting, LoadedEmptyEIP161 or DestroyedAgain, and a revert with
\* account DoNothing and previous_status the bundle's status when it is
\* Changed, InMemoryChange or DestroyedChanged.
NoOpIdempotenceAmended ==
    SameStateFold =>
        /\ panicked <=> pre.status = "Destroyed"
        /\ ~panicked =>
            /\ acc.status = pre.status
            /\ IF pre.status = "DestroyedAgain"
               THEN acc.info = None /\ acc.storage = EmptyMap
               ELSE acc.info = pre.info /\ acc.storage = pre.storage
            /\ IF pre.status \in {"Changed", "InMemoryChange", "DestroyedChanged"}
               THEN /\ ret # None
                    /\ ret[1].account = DoNothing
                    /\ ret[1].previous_status = pre.status
               ELSE ret = None

\* A same-state fold from Changed that returned a revert, with a changed slot.
NoOpIdempotenceWitness ==
    /\ SameStateFold
    /\ pre.status = "Changed"
    /\ pre.info # None
    /\ ret # None
    /\ DOMAIN ret[1].storage # {}

\* --------------------------------------------------------------------- C3
\* The revert returned holds no entry for any slot of the transition whose
\* value did not change.
NoEntryForUnchangedSlots ==
    \A k \in DOMAIN arg.storage :
        arg.storage[k].original_value = arg.storage[k].present_value
            => k \notin DOMAIN ret[1].storage

\* C3 (as claimed): for every fold that returns a revert, whatever the current
\* and the target status, a slot of the transition with original_value =
\* present_value has no entry in the revert's storage map.
StorageDiffMinimality ==
    (Folded /\ ret # None) => NoEntryForUnchangedSlots

\* The folds whose revert takes its storage from the transition: targets
\* Changed and InMemoryChange, and targets DestroyedChanged and DestroyedAgain
\* from Destroyed, DestroyedChanged or LoadedNotExisting.
DiffFromTransition ==
    \/ arg.status \in {"Changed", "InMemoryChange"}
    \/ /\ arg.status \in {"DestroyedChanged", "DestroyedAgain"}
       /\ pre.status \in {"Destroyed", "DestroyedChanged", "LoadedNotExisting"}

\* C3 (amended): the same, for the folds whose revert takes its storage from
\* the transition; the reverts built by the selfdestruct helpers (target
\* Destroyed, the pre-destruction capture, DestroyedChanged from
\* DestroyedAgain) may hold an entry for such a key.
StorageDiffMinimalityAmended ==
    (Folded /\ ret # None /\ DiffFromTransition) => NoEntryForUnchangedSlots

\* A fold to Changed with an unchanged slot in the transition.
StorageDiffMinimalityWitness ==
    /\ Folded
    /\ ret # None
    /\ arg.status = "Changed"
    /\ \E k \in DOMAIN arg.storage :
           /\ arg.storage[k].original_value = arg.storage[k].present_value
           /\ k \notin DOMAIN ret[1].storage

\* --------------------------------------------------------------------- C4
ScenarioInfo100 == Some([balance |-> 100])
ScenarioInfo150 == Some([balance |-> 150])
\* { status: Loaded, info: balance 100, storage: {} }
ScenarioBundle(b) ==
    b.status = "Loaded" /\ b.info = ScenarioInfo100 /\ b.storage = EmptyMap
\* { status: Changed, info: balance 150, storage: {1: original 0, present 5},
\*   previous_status: Loaded }
ScenarioTransition(t) ==
    /\ t.status = "Changed"
    /\ t.info = ScenarioInfo150
    /\ t.storage = [k \in {1} |-> [original_value |-> 0, present_value |-> 5]]
    /\ t.previous_status = "Loaded"
\* { account: RevertTo(balance 100), storage: {1: Some(0)},
\*   previous_status: Loaded }
ScenarioRevert(r) ==
    /\ r.account = [kind |-> "RevertTo", info |-> [balance |-> 100]]
    /\ r.storage = [k \in {1} |-> [kind |-> "Some", value |-> 0]]
    /\ r.previous_status = "Loaded"

\* C4: the scenario's fold makes the bundle {Changed, balance 150, {1: present
\* 5}} and returns the scenario's revert; applying that revert makes the
\* bundle {Loaded, balance 100, {1: present 0}} and returns false.
ConcreteScenario ==
    /\ (op = "update" /\ ScenarioBundle(pre) /\ ScenarioTransition(arg)) =>
        /\ ~panicked
        /\ acc.status = "Changed"
        /\ acc.info = ScenarioInfo150
        /\ PresentValues(acc.storage) = [k \in {1} |-> 5]
        /\ ret # None
        /\ ScenarioRevert(ret[1])
    /\ (/\ op = "revert"
        /\ PathIs(<<"Changed">>)
        /\ ScenarioBundle(start)
        /\ pre.info = ScenarioInfo150
        /\ PresentValues(pre.storage) = [k \in {1} |-> 5]
        /\ ScenarioRevert(arg)) =>
        /\ acc.status = "Loaded"
        /\ acc.info = ScenarioInfo100
        /\ PresentValues(acc.storage) = [k \in {1} |-> 0]
        /\ ret = FALSE

\* The scenario's revert has been applied to the scenario's folded bundle.
ConcreteScenarioWitness ==
    /\ op = "revert"
    /\ PathIs(<<"Changed">>)
    /\ ScenarioBundle(start)
    /\ pre.status = "Changed"
    /\ pre.info = ScenarioInfo150
    /\ PresentValues(pre.storage) = [k \in {1} |-> 5]
    /\ ScenarioRevert(arg)
    /\ acc.status = "Loaded"

\* --------------------------------------------------------------------- C5
\* C5 (as claimed): from a bundle in status Changed, the folds of a Destroyed
\* and then an InMemoryChange transition leave the bundle in status
\* DestroyedChanged.
SelfdestructThenRecreate ==
    (/\ op = "update"
     /\ start.status = "Changed"
     /\ PathIs(<<"Destroyed", "InMemoryChange">>)) =>
        ~panicked /\ acc.status = "DestroyedChanged"

\* C5 (amended): from a bundle in status Changed, the folds of a Destroyed and
\* then a DestroyedChanged transition (the status of an account created again
\* after its destruction) leave the bundle in status DestroyedChanged with the
\* new info and storage, and the two reverts, applied newest first, restore
\* status Changed, the info from before the destruction (the default info
\* when the bundle held none) and the storage present values from before the
\* destruction, not the empty Destroyed state.
SelfdestructThenRecreateAmended ==
    (start.status = "Changed" /\ PathIs(<<"Destroyed", "DestroyedChanged">>)) =>
        /\ ~panicked
        /\ op = "update" =>
            /\ acc.status = "DestroyedChanged"
            /\ acc.info = arg.info
            /\ acc.storage = arg.storage
            /\ Len(reverts) = 2
        /\ RolledBack =>
            /\ acc.status = "Changed"
            /\ acc.info = Some(unwrap_or_default(start.info))
            /\ PresentValues(acc.storage) = PresentValues(start.storage)

\* Both reverts of a destroy-and-recreate have been applied to a bundle that
\* held an info and a non-zero slot before the destruction.
SelfdestructThenRecreateWitness ==
    /\ start.status = "Changed"
    /\ start.info = Some([balance |-> 100])
    /\ \E k \in DOMAIN start.storage : start.storage[k].present_value = 5
    /\ PathIs(<<"Destroyed", "DestroyedChanged">>)
    /\ RolledBack
    /\ acc.status = "Changed"

\* --------------------------------------------------------------------- C6
\* The (current status, target status) pairs the transition matrix leaves out.
Unlisted(current, target) ==
    \/ target = "Changed"
        /\ current \notin {"Changed", "Loaded", "LoadedEmptyEIP161"}
    \/ target = "InMemoryChange"
        /\ current \notin {"LoadedEmptyEIP161", "Loaded", "LoadedNotExisting",
                           "InMemoryChange"}
    \/ target = "Destroyed"
        /\ current \in {"Destroyed", "DestroyedChanged", "DestroyedAgain"}

\* C6: update_and_create_revert panics exactly on the unlisted pairs, and a
\* call that panics returns no value.
FailureSemantics ==
    op = "update" =>
        /\ panicked <=> Unlisted(pre.status, arg.status)
        /\ panicked => ret = None /\ acc = pre

\* A fold to Destroyed of a bundle already Destroyed has panicked.
FailureSemanticsWitness ==
    /\ op = "update"
    /\ pre.status = "Destroyed"
    /\ arg.status = "Destroyed"
    /\ panicked

\* --------------------------------------------------------------------- C7
\* C7 (as claimed): a fold that returns None leaves the bundle's status, info
\* and storage as they were.
NoneIsNoOp ==
    (Folded /\ ret = None) =>
        /\ acc.status = pre.status
        /\ acc.info = pre.info
        /\ acc.storage = pre.storage

\* --------------------------------------------------------------------- C8
\* C8: a fold to Loaded, LoadedNotExisting or LoadedEmptyEIP161 never panics,
\* returns None and leaves status, info, original_info and storage unchanged.
ReadOnlyRefresh ==
    (/\ op = "update"
     /\ arg.status \in {"Loaded", "LoadedNotExisting", "LoadedEmptyEIP161"}) =>
        /\ ~panicked
        /\ ret = None
        /\ acc.status = pre.status
        /\ acc.info = pre.info
        /\ acc.original_info = pre.original_info
        /\ acc.storage = pre.storage

\* A fold to Loaded of a Changed bundle, the transition carrying another info
\* and a changed slot.
ReadOnlyRefreshWitness ==
    /\ op = "update"
    /\ arg.status = "Loaded"
    /\ pre.status = "Changed"
    /\ arg.info # pre.info
    /\ \E k \in DOMAIN arg.storage :
           arg.storage[k].original_value # arg.storage[k].present_value
    /\ acc = pre

\* --------------------------------------------------------------------- C9
\* C9: revert returns true exactly when the revert's account is DeleteIt, and
\* then the bundle ends with no info, no storage and the previous status;
\* otherwise it returns false, the status is the previous status, the info is
\* unchanged (DoNothing) or the recorded one (RevertTo), and each storage
\* entry sets the present value (Some) or removes the slot (Destroyed).
RevertContract ==
    op = "revert" =>
        /\ ret = TRUE <=> arg.account.kind = "DeleteIt"
        /\ ret \in BOOLEAN
        /\ acc.status = arg.previous_status
        /\ arg.account.kind = "DeleteIt" =>
            acc.info = None /\ acc.storage = EmptyMap
        /\ arg.account.kind = "DoNothing" => acc.info = pre.info
        /\ arg.account.kind = "RevertTo" => acc.info = <<arg.account.info>>
        /\ arg.account.kind # "DeleteIt" =>
            \A k \in DOMAIN arg.storage :
                IF arg.storage[k].kind = "Some"
                THEN /\ k \in DOMAIN acc.storage
                     /\ acc.storage[k].present_value = arg.storage[k].value
                ELSE k \notin DOMAIN acc.storage

\* A DeleteIt revert carrying a storage entry has been applied to a bundle
\* that held an info and a slot.
RevertContractWitness ==
    /\ op = "revert"
    /\ arg.account.kind = "DeleteIt"
    /\ \E k \in DOMAIN arg.storage : arg.storage[k].kind = "Some"
    /\ pre.info # None
    /\ pre.storage # EmptyMap
    /\ ret = TRUE

\* -------------------------------------------------------------------- C10
\* C10: extend sets status and info to other's, leaves original_info, keeps
\* every key of self with its original value, gives every key of other the
\* present value of other (inserting other's slot when absent), and leaves the
\* present value of the other keys.
ExtendContract ==
    op = "extend" =>
        /\ acc.status = arg.status
        /\ acc.info = arg.info
        /\ acc.original_info = pre.original_info
        /\ DOMAIN acc.storage = DOMAIN pre.storage \cup DOMAIN arg.storage
        /\ \A k \in DOMAIN pre.storage :
            /\ acc.storage[k].original_value = pre.storage[k].original_value
            /\ k \notin DOMAIN arg.storage =>
                acc.storage[k].present_value = pre.storage[k].present_value
        /\ \A k \in DOMAIN arg.storage :
            /\ acc.storage[k].present_value = arg.storage[k].present_value
            /\ k \notin DOMAIN pre.storage => acc.storage[k] = arg.storage[k]

\* extend has merged a slot of other into a slot of self whose original and
\* present values both differ from other's.
ExtendContractWitness ==
    /\ op = "extend"
    /\ pre.original_info # arg.original_info
    /\ \E k \in DOMAIN pre.storage \cap DOMAIN arg.storage :
           /\ pre.storage[k].original_value # arg.storage[k].original_value
           /\ pre.storage[k].present_value # arg.storage[k].present_value

\* -------------------------------------------------------------------- C11
\* C11: storage_slot(key) returns Some(present value) when the key is in the
\* storage map, whatever the status; when the key is absent it returns Some(0)
\* if storage_known() holds of the status and None otherwise; it never
\* returns None for a cached key and leaves the bundle as it was.
StorageSlotContract ==
    op = "storage_slot" =>
        /\ acc = pre
        /\ arg \in DOMAIN pre.storage =>
            ret = <<pre.storage[arg].present_value>>
        /\ (arg \notin DOMAIN pre.storage /\ storage_known(pre.status)) =>
            ret = <<0>>
        /\ (arg \notin DOMAIN pre.storage /\ ~storage_known(pre.status)) =>
            ret = <<>>

\* storage_slot has resolved a key that is not cached to zero, in a destroyed
\* bundle.
StorageSlotContractWitness ==
    /\ op = "storage_slot"
    /\ arg \notin DOMAIN pre.storage
    /\ pre.status = "Destroyed"
    /\ ret = <<0>>

\* ---------------------------------------------------- apply_evm_state claims
\* The transitions the last apply_evm_state returned for an address.
TransitionsOf(address) ==
    {ret[i][2] : i \in {j \in DOMAIN ret : ret[j][1] = address}}

\* The address has the cache entry, or the absence, it had before the call.
EntryAsBefore(address) ==
    /\ address \in DOMAIN cache.accounts <=> address \in DOMAIN pre.accounts
    /\ address \in DOMAIN pre.accounts =>
        cache.accounts[address] = pre.accounts[address]

\* The address is touched in the input of the last apply_evm_state and was
\* not cached.
TouchedAbsent(address) ==
    /\ address \in DOMAIN arg
    /\ arg[address].is_touched
    /\ address \notin DOMAIN pre.accounts

\* The branch the loop takes for a touched account.
Branch(account, has_state_clear) ==
    CASE account.is_selfdestructed -> "selfdestructed"
      [] account.is_created -> "created"
      [] is_empty(account.info) ->
            IF has_state_clear THEN "empty" ELSE "empty_legacy"
      [] OTHER -> "changed"

\* -------------------------------------------------------------------- C12
\* C12 (as claimed): for every touched address absent from the cache, in the
\* selfdestructed, the created, the empty (state clearing on) or the changed
\* branch, apply_evm_state does not abort, inserts an entry for the address
\* and returns no transition for it.
AbsentTouchedPlaceholder ==
    op = "apply_evm_state" =>
        \A address \in Addresses :
            (/\ TouchedAbsent(address)
             /\ Branch(arg[address], pre.has_state_clear) # "empty_legacy") =>
                /\ ~panicked
                /\ address \in DOMAIN cache.accounts
                /\ TransitionsOf(address) = {}

\* C12 (amended): for a touched address absent from the cache, a call that
\* does not abort inserts new_loaded_not_existing() with no transition when
\* the account selfdestructed, inserts new_changed(..) with no transition in
\* the changed branch, and inserts new_newly_created(..) and returns one
\* transition to InMemoryChange from LoadedNotExisting, with no previous
\* info, when the account was created; in the empty branch under state
\* clearing the call aborts.
AbsentTouchedPlaceholderAmended ==
    op = "apply_evm_state" =>
        \A address \in Addresses :
            TouchedAbsent(address) =>
                LET account == arg[address]
                    branch == Branch(account, pre.has_state_clear)
                    values == present_values(account.storage)
                IN  /\ branch = "empty" => panicked
                    /\ (~panicked /\ branch = "selfdestructed") =>
                        /\ cache.accounts[address] = new_loaded_not_existing
                        /\ TransitionsOf(address) = {}
                    /\ (~panicked /\ branch = "changed") =>
                        /\ cache.accounts[address] =
                               cache_new_changed(account.info, values)
                        /\ TransitionsOf(address) = {}
                    /\ (~panicked /\ branch = "created") =>
                        /\ cache.accounts[address] =
                               new_newly_created(account.info, values)
                        /\ TransitionsOf(address) =
                               {[info |-> <<account.info>>,
                                 status |-> "InMemoryChange",
                                 storage |-> account.storage,
                                 previous_info |-> <<>>,
                                 previous_status |-> "LoadedNotExisting"]}

\* One call took a created account and a selfdestructed account, neither
\* cached: both are inserted and one transition is returned.
AbsentTouchedPlaceholderWitness ==
    /\ op = "apply_evm_state"
    /\ ~panicked
    /\ TouchedAbsent("a1")
    /\ TouchedAbsent("a2")
    /\ Branch(arg["a1"], pre.has_state_clear) = "created"
    /\ Branch(arg["a2"], pre.has_state_clear) = "selfdestructed"
    /\ DOMAIN cache.accounts = Addresses
    /\ Len(ret) = 1

\* -------------------------------------------------------------------- C13
\* C13: with has_state_clear false, an address that is touched, not
\* selfdestructed, not created and empty gets no transition, and its cache
\* entry, or its absence from the cache, is as before the call.
EmptyTouchLegacy ==
    (op = "apply_evm_state" /\ ~pre.has_state_clear) =>
        \A address \in DOMAIN arg :
            (/\ arg[address].is_touched
             /\ Branch(arg[address], FALSE) = "empty_legacy") =>
                /\ TransitionsOf(address) = {}
                /\ EntryAsBefore(address)

\* A legacy cache holding a1 as a loaded account with balance 100 took a call
\* where a1 is touched and empty and a2 changed.
EmptyTouchLegacyWitness ==
    /\ op = "apply_evm_state"
    /\ ~pre.has_state_clear
    /\ DOMAIN arg = Addresses
    /\ arg["a1"].is_touched
    /\ Branch(arg["a1"], FALSE) = "empty_legacy"
    /\ "a1" \in DOMAIN pre.accounts
    /\ pre.accounts["a1"].status = "Loaded"
    /\ cache.accounts["a1"] = pre.accounts["a1"]
    /\ Len(ret) = 1

\* -------------------------------------------------------------------- C14
\* C14: an address that is untouched in the input, whatever its other flags,
\* or that is not in the input, gets no transition and keeps its cache entry,
\* or its absence from the cache.
UntouchedSkipped ==
    op = "apply_evm_state" =>
        \A address \in Addresses :
            (address \notin DOMAIN arg \/ ~arg[address].is_touched) =>
                /\ TransitionsOf(address) = {}
                /\ EntryAsBefore(address)

\* A cached account that is untouched, though flagged selfdestructed and
\* created, was skipped by a call that changed the other account.
UntouchedSkippedWitness ==
    /\ op = "apply_evm_state"
    /\ DOMAIN arg = Addresses
    /\ ~arg["a1"].is_touched
    /\ arg["a1"].is_selfdestructed
    /\ arg["a1"].is_created
    /\ "a1" \in DOMAIN pre.accounts
    /\ pre.accounts["a1"].account # <<>>
    /\ cache.accounts["a1"] = pre.accounts["a1"]
    /\ Len(ret) = 1
    /\ ret[1][1] = "a2"

\* -------------------------------------------------------------------- C15
\* C15: no call of insert_not_existing, insert_account,
\* insert_account_with_storage or apply_evm_state removes a cache entry: the
\* addresses cached before the call are cached after it.
EntriesNeverRemoved ==
    op \in {"insert_not_existing", "insert_account",
            "insert_account_with_storage", "apply_evm_state"} =>
        DOMAIN pre.accounts \subseteq DOMAIN cache.accounts

\* A cached account with an info selfdestructed: its entry stays, without
\* the account.
EntriesNeverRemovedWitness ==
    /\ op = "apply_evm_state"
    /\ \E address \in DOMAIN pre.accounts \cap DOMAIN arg :
           /\ pre.accounts[address].account # <<>>
           /\ arg[address].is_touched
           /\ arg[address].is_selfdestructed
           /\ cache.accounts[address].account = <<>>
           /\ cache.accounts[address].status = "Destroyed"

\* -------------------------------------------------------------------- C16
\* Every key the storage map holds before and after the last operation has
\* the original value it had.
OriginalValuesKept ==
    \A k \in DOMAIN pre.storage \cap DOMAIN acc.storage :
        acc.storage[k].original_value = pre.storage[k].original_value

\* C16 (as claimed): after update_and_create_revert (any pair that does not
\* abort), revert or extend, every key in the storage map before and after
\* has the original_value it had.
OriginalValuesFixed ==
    (op \in {"update", "revert", "extend"} /\ ~panicked) => OriginalValuesKept

\* The folds that replace the storage map by the transition's: target
\* DestroyedChanged from any status, and target InMemoryChange from
\* LoadedNotExisting.
StorageReplaced ==
    /\ op = "update"
    /\ \/ arg.status = "DestroyedChanged"
       \/ arg.status = "InMemoryChange" /\ pre.status = "LoadedNotExisting"

\* C16 (amended): the same for revert, for extend and for every fold that
\* does not replace the storage map; a fold that replaces it gives each key
\* the slot of the transition, original value included.
OriginalValuesFixedAmended ==
    /\ (op \in {"update", "revert", "extend"} /\ ~panicked /\ ~StorageReplaced)
           => OriginalValuesKept
    /\ (StorageReplaced /\ ~panicked) => acc.storage = arg.storage

\* A fold to Changed has given a new present value to a slot the bundle held
\* with another original value than the transition's.
OriginalValuesFixedWitness ==
    /\ Folded
    /\ arg.status = "Changed"
    /\ \E k \in DOMAIN pre.storage \cap DOMAIN arg.storage :
           /\ pre.storage[k].original_value # arg.storage[k].original_value
           /\ pre.storage[k].present_value # arg.storage[k].present_value
           /\ acc.storage[k].present_value = arg.storage[k].present_value

InMemoryChangeFromNotExisting ==
    /\ (/\ op = "update"
        /\ arg.status = "InMemoryChange"
        /\ pre.status = "LoadedNotExisting") =>
        /\ ~panicked
        /\ acc.storage = arg.storage
        /\ acc.status = "InMemoryChange"
        /\ ret # None
        /\ ret[1].account.kind = "DeleteIt"
        /\ ret[1].previous_status = "LoadedNotExisting"
    /\ (/\ op = "revert"
        /\ PathIs(<<"InMemoryChange">>)
        /\ start.status = "LoadedNotExisting") =>
        /\ ret = TRUE
        /\ acc.status = "LoadedNotExisting"
        /\ acc.info = <<>>
        /\ acc.storage = EmptyMap

\* The DeleteIt revert of an account created with a changed slot, over a
\* LoadedNotExisting bundle that held a slot, has been applied.
InMemoryChangeFromNotExistingWitness ==
    /\ op = "revert"
    /\ PathIs(<<"InMemoryChange">>)
    /\ start.status = "LoadedNotExisting"
    /\ start.storage # EmptyMap
    /\ DOMAIN arg.storage # {}
    /\ pre.storage # EmptyMap
    /\ ret = TRUE

SelfdestructBeforeCreated ==
    (op = "apply_evm_state" /\ ~panicked) =>
        \A address \in DOMAIN arg :
            (/\ arg[address].is_touched
             /\ arg[address].is_selfdestructed
             /\ arg[address].is_created) =>
                /\ Cardinality({i \in DOMAIN ret : ret[i][1] = address}) <= 1
                /\ IF address \in DOMAIN pre.accounts
                   THEN LET r == selfdestruct(pre.accounts[address])
                        IN  /\ cache.accounts[address] = r.self
                            /\ TransitionsOf(address) =
                                   IF r.ret = <<>> THEN {} ELSE {r.ret[1]}
                   ELSE /\ cache.accounts[address] = new_loaded_not_existing
                        /\ TransitionsOf(address) = {}

\* A cached account with balance 100 was created and selfdestructed in one
\* execution: its entry holds no account and one transition to Destroyed is
\* returned.
SelfdestructBeforeCreatedWitness ==
    /\ op = "apply_evm_state"
    /\ ~panicked
    /\ "a1" \in DOMAIN arg
    /\ arg["a1"].is_touched
    /\ arg["a1"].is_selfdestructed
    /\ arg["a1"].is_created
    /\ arg["a1"].info = [balance |-> 100]
    /\ "a1" \in DOMAIN pre.accounts
    /\ pre.accounts["a1"].account # <<>>
    /\ cache.accounts["a1"].account = <<>>
    /\ \E t \in TransitionsOf("a1") : t.status = "Destroyed"

\* -------------------------------------------------------------------- C23
\* The set of (address, transition) pairs in a list of transitions.
PairsOf(transitions) == {transitions[i] : i \in DOMAIN transitions}

\* C23: whatever the order in which the addresses of the input are iterated,
\* apply_evm_state aborts or not alike, and a call that does not abort
\* leaves the same accounts map and returns the same set of (address,
\* transition) pairs, with at most one transition per address.
OrderIndependence ==
    op = "apply_evm_state" =>
        \A order \in Orders(DOMAIN arg) :
            LET r == apply_evm_state(pre, arg, order)
            IN  /\ r.panic = panicked
                /\ ~panicked =>
                    /\ r.self = cache
                    /\ PairsOf(r.ret) = PairsOf(ret)
                    /\ Len(r.ret) = Len(ret)
                    /\ \A i, j \in DOMAIN ret :
                           ret[i][1] = ret[j][1] => i = j

\* Two cached accounts each got a transition, and a2's came first.
OrderIndependenceWitness ==
    /\ op = "apply_evm_state"
    /\ ~panicked
    /\ DOMAIN pre.accounts = Addresses
    /\ Len(ret) = 2
    /\ ret[1][1] = "a2"
    /\ ret[2][1] = "a1"
    /\ ret[1][2].status # ret[2][2].status

\* -------------------------------------------------------------------- C24
\* A bundle account in status Destroyed or DestroyedAgain has no info and no
\* storage.
HoldsNoData(b) ==
    b.status \in {"Destroyed", "DestroyedAgain"} =>
        b.info = <<>> /\ b.storage = EmptyMap

\* C24: from a bundle account that holds no data when destroyed, every fold
\* that does not abort and every revert, applied newest first, of the reverts
\* the folds returned leaves a bundle account that holds no data when its
\* status is Destroyed or DestroyedAgain.
DestroyedHoldNoData ==
    HoldsNoData(start) => HoldsNoData(acc)

\* -------------------------------------------------------------------- C25
\* C25 (as claimed): once the status is Destroyed, DestroyedChanged or
\* DestroyedAgain, no operation but revert takes the bundle account to a
\* status outside that family: a fold that does not abort leaves it there,
\* and so does extend.
DestroyedFamilyAbsorbing ==
    (/\ op \in {"update", "extend"}
     /\ ~panicked
     /\ was_destroyed(pre)) => was_destroyed(acc)

\* C25 (amended): once the status is Destroyed, DestroyedChanged or
\* DestroyedAgain, every fold that does not abort leaves it in that family;
\* extend gives the bundle account the status of the other account, destroyed
\* or not.
DestroyedFamilyAbsorbingAmended ==
    /\ (op = "update" /\ ~panicked /\ was_destroyed(pre)) => was_destroyed(acc)
    /\ op = "extend" => acc.status = arg.status

\* A DestroyedChanged bundle took a fold to LoadedNotExisting, which does not
\* abort, and stayed DestroyedChanged.
DestroyedFamilyAbsorbingWitness ==
    /\ op = "update"
    /\ ~panicked
    /\ pre.status = "DestroyedChanged"
    /\ arg.status = "LoadedNotExisting"
    /\ acc.status = "DestroyedChanged"

====
